---- MODULE Spec2Model ----
(***************************************************************************)
(* A model of the dice collection tracker (package __init__.py and        *)
(* filter_funcs.py): the code codec (encode, Die.__init__), the filter    *)
(* engine (Lou.filter), the aggregation (Lou.do_count) and the session    *)
(* state of Lou with its data file dice.dat.                              *)
(*                                                                         *)
(* Python strings are modelled as sequences of one-character strings, so  *)
(* that slicing, case conversion, formatting and parsing are computed as  *)
(* the code computes them.                                                 *)
(***************************************************************************)
EXTENDS Integers, Sequences, FiniteSets, TLC

VARIABLES
    dice,       \* Lou.dice: the list of Die objects of the collection
    current,    \* Lou.current: a list of references (indexes into dice)
    changes,    \* Lou.changes
    new_rows,   \* Lou.new_rows: a list of references (indexes into dice)
    subsets,    \* Lou.subsets: name -> list of references
    dat,        \* the lines of the data file dice.dat
    running,    \* TRUE until do_quit returns True to the command loop
    ledger,     \* history: code -> quantity loaded plus quantities added
    entries,    \* history: the number of add and add7 commands that entered dice
    last,       \* the last command of the session: its inputs and outcome
    call        \* the call record of the codec specification

vars == <<dice, current, changes, new_rows, subsets, dat, running, ledger, entries, last, call>>

----------------------------------------------------------------------------
(* Python's str and int primitives, on sequences of characters.            *)

LOWERCASE == <<"a","b","c","d","e","f","g","h","i","j","k","l","m","n","o","p","q","r","s","t","u","v","w","x","y","z">>
UPPERCASE == <<"A","B","C","D","E","F","G","H","I","J","K","L","M","N","O","P","Q","R","S","T","U","V","W","X","Y","Z">>
DIGITS == <<"0","1","2","3","4","5","6","7","8","9">>
WHITESPACE == {" ", "\t", "\n"}

Min(a, b) == IF a < b THEN a ELSE b
Max(a, b) == IF a > b THEN a ELSE b

\* seq.index(x) of Python, 1-based; 0 when x is not in seq.
Index(seq, x) ==
    IF \E i \in DOMAIN seq : seq[i] = x
    THEN CHOOSE i \in DOMAIN seq : seq[i] = x /\ \A j \in 1..(i - 1) : seq[j] # x
    ELSE 0

Range(seq) == {seq[i] : i \in DOMAIN seq}

\* str.upper and str.lower
upper(s) ==
    [i \in DOMAIN s |-> IF Index(LOWERCASE, s[i]) > 0 THEN UPPERCASE[Index(LOWERCASE, s[i])] ELSE s[i]]
lower(s) ==
    [i \in DOMAIN s |-> IF Index(UPPERCASE, s[i]) > 0 THEN LOWERCASE[Index(UPPERCASE, s[i])] ELSE s[i]]

\* s[a:b] for 0 <= a, 0 <= b, and s[-2:]
slice(s, a, b) == SubSeq(s, a + 1, Min(b, Len(s)))
from(s, a) == SubSeq(s, a + 1, Len(s))
last2(s) == SubSeq(s, Max(1, Len(s) - 1), Len(s))

\* str.replace(old, new) for one-character old and new
replace(s, old, new) == [i \in DOMAIN s |-> IF s[i] = old THEN new ELSE s[i]]

\* str.startswith for a one-character prefix
startswith(s, c) == Len(s) > 0 /\ s[1] = c

\* str.isnumeric, over the ASCII characters of the model
isnumeric(s) == Len(s) > 0 /\ \A i \in DOMAIN s : Index(DIGITS, s[i]) > 0

\* str(n) for n >= 0
RECURSIVE str(_)
str(n) == IF n < 10 THEN <<DIGITS[n + 1]>> ELSE str(n \div 10) \o <<DIGITS[(n % 10) + 1]>>

\* format(n, '0<width>') for n >= 0: zero padded to at least width characters
RECURSIVE zeros(_)
zeros(k) == IF k <= 0 THEN <<>> ELSE <<"0">> \o zeros(k - 1)
format0(n, width) == zeros(width - Len(str(n))) \o str(n)

\* str.strip
RECURSIVE lstrip(_)
lstrip(s) == IF Len(s) > 0 /\ s[1] \in WHITESPACE THEN lstrip(Tail(s)) ELSE s
RECURSIVE rstrip(_)
rstrip(s) == IF Len(s) > 0 /\ s[Len(s)] \in WHITESPACE THEN rstrip(SubSeq(s, 1, Len(s) - 1)) ELSE s
strip(s) == rstrip(lstrip(s))

\* int(s): the text is stripped, and must then be decimal digits
int_ok(s) == isnumeric(strip(s))
RECURSIVE digits_value(_)
digits_value(s) ==
    IF Len(s) = 0 THEN 0
    ELSE 10 * digits_value(SubSeq(s, 1, Len(s) - 1)) + (Index(DIGITS, s[Len(s)]) - 1)
int(s) == digits_value(strip(s))

\* A dict as the sequence of its (key, value) pairs in insertion order.
has_key(d, k) == \E i \in DOMAIN d : d[i][1] = k
item(d, k) == d[CHOOSE i \in DOMAIN d : d[i][1] = k][2]
get(d, k, default) == IF has_key(d, k) THEN item(d, k) ELSE default
values(d) == [i \in DOMAIN d |-> d[i][2]]
keys(d) == [i \in DOMAIN d |-> d[i][1]]

\* flags & (2 ** power), as a truth value
RECURSIVE pow2(_)
pow2(k) == IF k = 0 THEN 1 ELSE 2 * pow2(k - 1)
bit(flags, power) == (flags \div pow2(power)) % 2 = 1

----------------------------------------------------------------------------
(* The constants of the package.                                           *)

COLORS == <<
    <<<<"B","L","A">>, <<"b","l","a","c","k">>>>, <<<<"B","L","U">>, <<"b","l","u","e">>>>, <<<<"B","R","A">>, <<"b","r","a","s","s">>>>,
    <<<<"B","R","O">>, <<"b","r","o","w","n">>>>, <<<<"G","O","L">>, <<"g","o","l","d">>>>, <<<<"G","R","A">>, <<"g","r","a","y">>>>,
    <<<<"G","R","E">>, <<"g","r","e","e","n">>>>, <<<<"O","F","F">>, <<"o","f","f"," ","w","h","i","t","e">>>>, <<<<"O","R","A">>, <<"o","r","a","n","g","e">>>>,
    <<<<"O","T","H">>, <<"o","t","h","e","r">>>>, <<<<"P","I","N">>, <<"p","i","n","k">>>>, <<<<"P","U","R">>, <<"p","u","r","p","l","e">>>>,
    <<<<"R","E","D">>, <<"r","e","d">>>>, <<<<"S","I","L">>, <<"s","i","l","v","e","r">>>>, <<<<"T","A","N">>, <<"t","a","n">>>>,
    <<<<"T","R","A">>, <<"t","r","a","n","s","p","a","r","e","n","t">>>>, <<<<"W","H","I">>, <<"w","h","i","t","e">>>>, <<<<"Y","E","L">>, <<"y","e","l","l","o","w">>>> >>

SIZES == <<
    <<<<"S">>, <<"s","m","a","l","l">>>>, <<<<"M">>, <<"m","e","d","i","u","m">>>>, <<<<"L">>, <<"l","a","r","g","e">>>>,
    <<<<"H">>, <<"h","u","g","e">>>>, <<<<"G">>, <<"g","i","g","a","n","t","i","c">>>> >>

FLAGS == <<<<"a","r","t","_","p","i","p">>, <<"m","a","t","e","r","i","a","l">>, <<"o","d","d","_","s","h","a","p","e">>, <<"o","d","d","_","p","i","p">>, <<"o","d","d","_","f","a","c","e">>>>

\* The menu of do_add: the letter of each line, and the attribute of Die that
\* the text of the line describes (by the attribute list of the Die class:
\* "not 1 to N" is odd_face, "not pips or arabic numerals" is odd_pip,
\* "non-standard shape" is odd_shape, "besides plastic or resin" is material,
\* "different symbols for the 1 or the N" is art_pip).
FLAG_MENU == <<
    <<"a", <<"o","d","d","_","f","a","c","e">>>>, <<"b", <<"o","d","d","_","p","i","p">>>>, <<"c", <<"o","d","d","_","s","h","a","p","e">>>>,
    <<"d", <<"m","a","t","e","r","i","a","l">>>>, <<"e", <<"a","r","t","_","p","i","p">>>> >>

\* The attributes an instance of Die has after __init__, by name, and the
\* field of the model's record that holds each.  (The methods of the class are
\* attributes too; no command of the model names one.)
ATTRIBUTES == <<
    <<<<"c","o","d","e">>, "code">>, <<<<"c","o","u","n","t">>, "count">>, <<<<"c","o","l","o","r">>, "color">>,
    <<<<"s","i","z","e">>, "size">>, <<<<"s","i","d","e","s">>, "sides">>, <<<<"f","a","c","e","s">>, "faces">>,
    <<<<"a","r","t","_","p","i","p">>, "art_pip">>, <<<<"m","a","t","e","r","i","a","l">>, "material">>,
    <<<<"o","d","d","_","s","h","a","p","e">>, "odd_shape">>, <<<<"o","d","d","_","p","i","p">>, "odd_pip">>,
    <<<<"o","d","d","_","f","a","c","e">>, "odd_face">> >>

hasattr(die, name) == has_key(ATTRIBUTES, name)
getattr(die, name) == die[item(ATTRIBUTES, name)]

----------------------------------------------------------------------------
(* The code codec.                                                         *)

\* encode as it would be with a reverse lookup of the display names
encode_raises_by_name(color, size, sides, faces, flags) ==
    IF color \notin Range(values(COLORS)) THEN "ValueError"
    ELSE IF size \notin Range(values(SIZES)) THEN "ValueError"
    ELSE ""

\* encode: the exception it raises ("" when it returns)
encode_raises(color, size, sides, faces, flags) ==
    IF ~has_key(COLORS, upper(slice(color, 0, 3))) THEN "ValueError"
    ELSE IF Len(size) = 0 THEN "IndexError"
    ELSE IF ~has_key(SIZES, upper(<<size[1]>>)) THEN "ValueError"
    ELSE ""

\* encode as it would be with the numbers formatted without padding
encode_unpadded(color, size, sides, faces, flags) ==
    upper(slice(color, 0, 3)) \o upper(<<size[1]>>) \o str(sides) \o str(faces) \o str(flags)

\* encode: the code it returns
encode(color, size, sides, faces, flags) ==
    upper(slice(color, 0, 3)) \o upper(<<size[1]>>)
        \o format0(sides, 3) \o format0(faces, 3) \o format0(flags, 2)

\* Die.__init__: the exception it raises ("" when it returns)
Die_raises(code) ==
    IF ~has_key(COLORS, slice(code, 0, 3)) THEN "KeyError"
    ELSE IF Len(code) < 4 THEN "IndexError"
    ELSE IF ~has_key(SIZES, <<code[4]>>) THEN "KeyError"
    ELSE IF ~int_ok(slice(code, 4, 7)) \/ ~int_ok(slice(code, 7, 10)) \/ ~int_ok(last2(code))
    THEN "ValueError"
    ELSE ""

\* Die.__init__: the object it builds
Die(code, count) ==
    LET flags == int(last2(code))
    IN  [code |-> code,
         count |-> count,
         color |-> item(COLORS, slice(code, 0, 3)),
         size |-> item(SIZES, <<code[4]>>),
         sides |-> int(slice(code, 4, 7)),
         faces |-> int(slice(code, 7, 10)),
         art_pip |-> bit(flags, Index(FLAGS, <<"a","r","t","_","p","i","p">>) - 1),
         material |-> bit(flags, Index(FLAGS, <<"m","a","t","e","r","i","a","l">>) - 1),
         odd_shape |-> bit(flags, Index(FLAGS, <<"o","d","d","_","s","h","a","p","e">>) - 1),
         odd_pip |-> bit(flags, Index(FLAGS, <<"o","d","d","_","p","i","p">>) - 1),
         odd_face |-> bit(flags, Index(FLAGS, <<"o","d","d","_","f","a","c","e">>) - 1)]

\* Die.data: the line of the data file
data(die) == die.code \o <<"\t">> \o str(die.count) \o <<"\n">>

\* Die.__add__ with an int, and Die.__radd__, which sum() uses
Die__add__(die, other) == die.count + other
Die__radd__(die, other) == Die__add__(die, other)

\* sum(list of Die): 0 + die + die + ..., each step through Die.__radd__
RECURSIVE sum(_)
sum(list) ==
    IF Len(list) = 0 THEN 0
    ELSE Die__radd__(list[Len(list)], sum(SubSeq(list, 1, Len(list) - 1)))

----------------------------------------------------------------------------
(* The filter functions of filter_funcs.py, and the filter engine.         *)

is_odd_sided(die) == die.sides % 2 # 0

is_platonic(die) == die.sides \in {4, 6, 8, 12, 20} /\ ~die.odd_shape

is_standard(die) ==
    /\ die.size = <<"m","e","d","i","u","m">> /\ die.sides \in {4, 6, 8, 10, 12, 20} /\ ~die.odd_shape
    /\ (die.sides = 10 \/ ~die.odd_face)

\* Lou.filters, as preloop builds it: the callables of filter_funcs, each under
\* its name without the leading "is_"
FILTER_FUNCS == <<<<"i","s","_","o","d","d","_","s","i","d","e","d">>, <<"i","s","_","p","l","a","t","o","n","i","c">>, <<"i","s","_","s","t","a","n","d","a","r","d">>>>
filters == [i \in DOMAIN FILTER_FUNCS |-> from(FILTER_FUNCS[i], 3)]
apply_filter(name, die) ==
    CASE name = <<"o","d","d","_","s","i","d","e","d">> -> is_odd_sided(die)
      [] name = <<"p","l","a","t","o","n","i","c">> -> is_platonic(die)
      [] name = <<"s","t","a","n","d","a","r","d">> -> is_standard(die)

\* str.split(): the words between runs of whitespace
RECURSIVE split(_)
split(s) ==
    LET t == lstrip(s)
        stops == {i \in DOMAIN t : t[i] \in WHITESPACE}
        n == IF stops = {} THEN Len(t) + 1 ELSE CHOOSE i \in stops : \A j \in stops : i <= j
    IN  IF Len(t) = 0 THEN <<>> ELSE <<SubSeq(t, 1, n - 1)>> \o split(SubSeq(t, n, Len(t)))

\* One round of the loop of Lou.filter: output narrowed by one word.  The
\* lists of the session hold references to the Die objects of Lou.dice: a
\* reference is the index of the object in dice.  For a size word the code
\* compares die.color with the word.
filter_word(output, word0) ==
    LET word1 == get(COLORS, upper(word0), word0)
        word == get(SIZES, upper(word1), word1)
        flag_word == replace(word, "-", "_")
        by_color(r) == dice[r].color = word
        by_size(r) == dice[r].color = word
        by_sides(r) == dice[r].sides = int(from(word, 1))
        by_faces(r) == dice[r].faces = int(from(word, 1))
        by_flag(r) == getattr(dice[r], flag_word)
        by_not_flag(r) == ~getattr(dice[r], from(flag_word, 1))
        by_func(r) == apply_filter(flag_word, dice[r])
    IN  IF word \in Range(values(COLORS)) THEN SelectSeq(output, by_color)
        ELSE IF word \in Range(values(SIZES)) THEN SelectSeq(output, by_size)
        ELSE IF startswith(word, "d") /\ isnumeric(from(word, 1)) THEN SelectSeq(output, by_sides)
        ELSE IF startswith(word, "f") /\ isnumeric(from(word, 1)) THEN SelectSeq(output, by_faces)
        ELSE IF flag_word \in Range(FLAGS) THEN SelectSeq(output, by_flag)
        ELSE IF flag_word[1] = "!" /\ from(flag_word, 1) \in Range(FLAGS)
        THEN SelectSeq(output, by_not_flag)
        ELSE IF flag_word \in Range(filters) THEN SelectSeq(output, by_func)
        ELSE output

RECURSIVE filter_words(_, _)
filter_words(output, words) ==
    IF Len(words) = 0 THEN output
    ELSE filter_words(filter_word(output, Head(words)), Tail(words))

\* Lou.filter as it would be if it started from the whole collection
filter_from_dice(base, arguments) ==
    filter_words([i \in DOMAIN dice |-> i], split(lower(arguments)))

\* Lou.filter: the list it returns (and stores in Lou.current)
filter(base, arguments) == filter_words(base, split(lower(arguments)))

----------------------------------------------------------------------------
(* Loading the data file.                                                  *)

\* The characters of the model in code point order, for Python's comparison
\* of strings.
CODEPOINTS == <<"\t","\n"," ","!","-","0","1","2","3","4","5","6","7","8","9","A","B","C","D","E","F","G","H","I","J","K","L","M","N","O","P","Q","R","S","T","U","V","W","X","Y","Z","_","a","b","c","d","e","f","g","h","i","j","k","l","m","n","o","p","q","r","s","t","u","v","w","x","y","z">>
ord(c) == Index(CODEPOINTS, c)

RECURSIVE str_lt(_, _)
str_lt(a, b) ==
    IF Len(b) = 0 THEN FALSE
    ELSE IF Len(a) = 0 THEN TRUE
    ELSE IF a[1] # b[1] THEN ord(a[1]) < ord(b[1])
    ELSE str_lt(Tail(a), Tail(b))

\* list.sort(key = lambda die: die.code): a stable sort
RECURSIVE insert_by_code(_, _)
insert_by_code(sorted, die) ==
    IF Len(sorted) = 0 THEN <<die>>
    ELSE IF str_lt(die.code, sorted[Len(sorted)].code)
    THEN Append(insert_by_code(SubSeq(sorted, 1, Len(sorted) - 1), die), sorted[Len(sorted)])
    ELSE Append(sorted, die)
RECURSIVE sort_by_code(_)
sort_by_code(list) ==
    IF Len(list) = 0 THEN <<>>
    ELSE insert_by_code(sort_by_code(SubSeq(list, 1, Len(list) - 1)), list[Len(list)])

\* code, count = line.split('\t'), for a line with one tab
tab_at(line) == Index(line, "\t")
parse_line(line) ==
    Die(SubSeq(line, 1, tab_at(line) - 1), int(SubSeq(line, tab_at(line) + 1, Len(line))))

\* Lou.load_data: the list it leaves in Lou.dice
load_data(lines) == sort_by_code([i \in DOMAIN lines |-> parse_line(lines[i])])

----------------------------------------------------------------------------
(* The bounds of the model and the inputs of the commands.                 *)

MaxEntries == 2         \* a session enters dice with at most this many add and add7 commands
MaxLines == 3           \* the data files of the query specification have at most this many lines
MaxFlagsInput == 32     \* the codec specification encodes the flags 0..MaxFlagsInput

\* The data files a session starts from: lines written by Die.data.
InitFiles == {
    <<>>,
    <<<<"R","E","D","M","0","0","6","0","0","6","0","0","\t","1","\n">>>> }

\* The answers given to the prompts of do_add: a color and a size of the
\* menus, sides, faces, the letters of the flags and the quantity.
AddInputs == {
    [color |-> <<"r","e","d">>, size |-> <<"m","e","d","i","u","m">>, sides |-> 6, faces |-> 6, choices |-> <<>>, count |-> 3],
    [color |-> <<"b","l","u","e">>, size |-> <<"s","m","a","l","l">>, sides |-> 6, faces |-> 3, choices |-> <<"a","D">>, count |-> 4],
    [color |-> <<"o","f","f"," ","w","h","i","t","e">>, size |-> <<"l","a","r","g","e">>, sides |-> 1000, faces |-> 1, choices |-> <<"e","e">>, count |-> 1],
    [color |-> <<"r","e","d">>, size |-> <<"m","e","d","i","u","m">>, sides |-> 6, faces |-> 6, choices |-> <<"x">>, count |-> 1] }

Add7Colors == {<<"r","e","d">>}

\* The arguments given to subset, count, load and store in a session.
SessionCriteria == {<<"d","6"," ","!","m","a","t","e","r","i","a","l">>}
SessionFeatures == {<<"s","i","d","e","s">>}
LoadNames == {<<"A","l","l">>, <<"m","i","n","e">>}
StoreNames == {<<"m","i","n","e">>}

\* The data files of the query specification: up to MaxLines lines, in the
\* order a session that appended them left them.
QueryLines == {
    <<"R","E","D","M","0","0","6","0","0","6","0","0","\t","2","\n">>, <<"B","L","U","S","0","0","6","0","0","3","1","6","\t","3","\n">>, <<"R","E","D","M","0","1","0","0","1","0","1","6","\t","1","\n">>,
    <<"O","F","F","L","0","2","0","0","2","0","0","5","\t","1","\n">> }
RECURSIVE files_of(_)
files_of(n) ==
    IF n = 0 THEN {<<>>}
    ELSE files_of(n - 1) \cup
         {Append(f, line) : f \in {g \in files_of(n - 1) : Len(g) = n - 1},
                            line \in QueryLines}
QueryFiles == {f \in files_of(MaxLines) : \A i, j \in DOMAIN f : i # j => f[i] # f[j]}

\* The arguments given to subset and count in the query specification.
Criteria == {
    <<>>, <<"r","e","d">>, <<"B","L","U">>, <<"m","e","d","i","u","m">>, <<"s">>, <<"d","6">>, <<"f","3">>, <<"D","1","0"," ","o","d","d","-","f","a","c","e">>,
    <<"!","a","r","t","_","p","i","p">>, <<"s","t","a","n","d","a","r","d">>, <<"p","l","a","t","o","n","i","c">>, <<"o","d","d","-","s","i","d","e","d">>, <<"x","y","z">>, <<"r","e","d"," "," ","d","2","0"," ","d","6">> }
Features == {
    <<"c","o","l","o","r">>, <<"s","i","z","e">>, <<"s","i","d","e","s">>, <<"f","a","c","e","s">>, <<"O","d","d","-","F","a","c","e">>, <<"o","d","d","_","p","i","p">>, <<"o","d","d","-","s","h","a","p","e">>,
    <<"m","a","t","e","r","i","a","l">>, <<"a","r","t","_","p","i","p">>, <<"w","e","i","g","h","t">>, <<>> }

----------------------------------------------------------------------------
(* The commands of Lou.                                                    *)

\* do_add: the sum of 2 ** 'abcde'.index(letter) over the letters entered;
\* str.index raises ValueError for a letter that is not in 'abcde', which the
\* except clause (IndexError) does not catch.
choices_ok(choices) == \A i \in DOMAIN choices : Index(<<"a","b","c","d","e">>, lower(choices)[i]) > 0
RECURSIVE choices_flags(_)
choices_flags(letters) ==
    IF Len(letters) = 0 THEN 0
    ELSE pow2(Index(<<"a","b","c","d","e">>, Head(letters)) - 1) + choices_flags(Tail(letters))

\* do_add as it would be if it never looked for matching dice
enter_always_append(d, code, count) ==
    [d EXCEPT !.dice = Append(@, Die(code, count)), !.new_rows = Append(@, Len(d.dice) + 1)]

\* do_add: the dice of one code entered into (dice, changes, new_rows)
enter(d, code, count) ==
    LET matches == SelectSeq([i \in DOMAIN d.dice |-> i], LAMBDA i : d.dice[i].code = code)
    IN  IF Len(matches) > 0
        THEN [d EXCEPT !.dice[matches[1]].count = @ + count, !.changes = TRUE]
        ELSE [d EXCEPT !.dice = Append(@, Die(code, count)),
                       !.new_rows = Append(@, Len(d.dice) + 1)]

\* do_add7: one die of one code entered into (dice, changes, new_rows); encode
\* raises nothing for a color of the menu and the size 'M'.
enter7(d, code) ==
    LET matches == SelectSeq([i \in DOMAIN d.dice |-> i], LAMBDA i : d.dice[i].code = code)
    IN  IF Len(matches) > 0
        THEN [d EXCEPT !.dice[matches[1]].count = @ + 1, !.changes = TRUE]
        ELSE [d EXCEPT !.dice = Append(@, Die(code, 1)),
                       !.new_rows = Append(@, Len(d.dice) + 1)]

\* The history of the quantities entered, by code.
credit(l, code, count) ==
    IF code \in DOMAIN l THEN [l EXCEPT ![code] = @ + count] ELSE (code :> count) @@ l

\* do_add.  An exception leaves the command before anything is entered: the
\* ValueError of the letters, or one of encode or of Die (none is raised for
\* the colors and sizes of the menus).
do_add(in) ==
    /\ running
    /\ entries < MaxEntries
    /\ LET flags == choices_flags(lower(in.choices))
           code == encode(in.color, in.size, in.sides, in.faces, flags)
           raised ==
               IF ~choices_ok(in.choices) THEN "ValueError"
               ELSE IF encode_raises(in.color, in.size, in.sides, in.faces, flags) # ""
               THEN encode_raises(in.color, in.size, in.sides, in.faces, flags)
               ELSE IF \A i \in DOMAIN dice : dice[i].code # code THEN Die_raises(code)
               ELSE ""
           d == enter([dice |-> dice, changes |-> changes, new_rows |-> new_rows], code, in.count)
       IN  IF raised # ""
           THEN /\ last' = [op |-> "add", in |-> in, raised |-> raised]
                /\ UNCHANGED <<dice, changes, new_rows, ledger, entries>>
           ELSE /\ dice' = d.dice
                /\ entries' = entries + 1
                /\ changes' = d.changes
                /\ new_rows' = d.new_rows
                /\ ledger' = credit(ledger, code, in.count)
                /\ last' = [op |-> "add", in |-> in, raised |-> "",
                            code |-> code, total |-> sum(d.dice)]
    /\ UNCHANGED <<current, subsets, dat, running, call>>

SEVEN == <<4, 6, 8, 10, 100, 12, 20>>

add7_code(color, sides) ==
    IF sides = 100 THEN encode(color, <<"M">>, 10, 10, 16) ELSE encode(color, <<"M">>, sides, sides, 0)

RECURSIVE add7_loop(_, _, _)
add7_loop(d, color, todo) ==
    IF Len(todo) = 0 THEN d
    ELSE add7_loop(enter7(d, add7_code(color, Head(todo))), color, Tail(todo))

RECURSIVE credit7(_, _, _)
credit7(l, color, todo) ==
    IF Len(todo) = 0 THEN l
    ELSE credit7(credit(l, add7_code(color, Head(todo)), 1), color, Tail(todo))

do_add7(color) ==
    /\ running
    /\ entries < MaxEntries
    /\ LET d == add7_loop([dice |-> dice, changes |-> changes, new_rows |-> new_rows], color, SEVEN)
       IN  /\ dice' = d.dice
           /\ changes' = d.changes
           /\ new_rows' = d.new_rows
           /\ ledger' = credit7(ledger, color, SEVEN)
           /\ entries' = entries + 1
           /\ last' = [op |-> "add7", color |-> color, total |-> sum(d.dice)]
    /\ UNCHANGED <<current, subsets, dat, running, call>>

\* do_count as it would be with counts[value] = die.count
RECURSIVE count_loop_overwrite(_, _, _)
count_loop_overwrite(counts, list, feature) ==
    IF Len(list) = 0 THEN counts
    ELSE LET die == dice[Head(list)]
             value == getattr(die, feature)
             at == Index(keys(counts), value)
         IN  count_loop_overwrite(
                 IF at > 0 THEN [counts EXCEPT ![at][2] = die.count]
                 ELSE Append(counts, <<value, 0 + die.count>>),
                 Tail(list), feature)

\* do_count: the counts by value, a dict in the order the values are first seen
RECURSIVE count_loop(_, _, _)
count_loop(counts, list, feature) ==
    IF Len(list) = 0 THEN counts
    ELSE LET die == dice[Head(list)]
             value == getattr(die, feature)
             at == Index(keys(counts), value)
         IN  count_loop(
                 IF at > 0 THEN [counts EXCEPT ![at][2] = @ + die.count]
                 ELSE Append(counts, <<value, 0 + die.count>>),
                 Tail(list), feature)

\* do_count leaves the session as it is; what it prints is in last: the
\* invalid feature message (invalid), or the counts.  self.current[0] raises
\* IndexError for an empty current, which the except clause (AttributeError)
\* does not catch.
do_count(arguments) ==
    /\ running
    /\ LET feature == replace(lower(arguments), "-", "_")
       IN  last' =
             IF Len(current) = 0
             THEN [op |-> "count", arguments |-> arguments, raised |-> "IndexError",
                   invalid |-> FALSE, counts |-> <<>>]
             ELSE IF ~hasattr(dice[current[1]], feature)
             THEN [op |-> "count", arguments |-> arguments, raised |-> "",
                   invalid |-> TRUE, counts |-> <<>>]
             ELSE [op |-> "count", arguments |-> arguments, raised |-> "",
                   invalid |-> FALSE, counts |-> count_loop(<<>>, current, feature)]
    /\ UNCHANGED <<dice, current, changes, new_rows, subsets, dat, running, ledger, entries, call>>

\* The lines that new_rows.pop() writes until new_rows is empty: last first.
RECURSIVE pop_all(_)
pop_all(rows) ==
    IF Len(rows) = 0 THEN <<>>
    ELSE <<data(dice[rows[Len(rows)]])>> \o pop_all(SubSeq(rows, 1, Len(rows) - 1))

\* Lou.do_save: what it leaves in the file, in changes and in new_rows
save ==
    IF changes
    THEN [dat |-> [i \in DOMAIN dice |-> data(dice[i])], changes |-> FALSE,
          new_rows |-> new_rows, mode |-> "w", rows |-> Len(dice)]
    ELSE IF Len(new_rows) > 0
    THEN [dat |-> dat \o pop_all(new_rows), changes |-> changes,
          new_rows |-> <<>>, mode |-> "a", rows |-> Len(new_rows)]
    ELSE [dat |-> dat, changes |-> changes, new_rows |-> new_rows, mode |-> "", rows |-> 0]

do_save ==
    /\ running
    /\ dat' = save.dat
    /\ changes' = save.changes
    /\ new_rows' = save.new_rows
    /\ last' = [op |-> "save", mode |-> save.mode, rows |-> save.rows]
    /\ UNCHANGED <<dice, current, subsets, running, ledger, entries, call>>

\* do_quit; answer is the answer to the question whether to save
do_quit(answer) ==
    /\ running
    /\ running' = FALSE
    /\ IF (changes \/ Len(new_rows) > 0) /\ answer
       THEN /\ dat' = save.dat
            /\ changes' = save.changes
            /\ new_rows' = save.new_rows
            /\ last' = [op |-> "quit", asked |-> TRUE, mode |-> save.mode, rows |-> save.rows]
       ELSE /\ last' = [op |-> "quit", asked |-> changes \/ Len(new_rows) > 0, mode |-> "", rows |-> 0]
            /\ UNCHANGED <<dat, changes, new_rows>>
    /\ UNCHANGED <<dice, current, subsets, ledger, entries, call>>

do_load(arguments) ==
    /\ running
    /\ IF lower(arguments) = <<"a","l","l">>
       THEN /\ current' = [i \in DOMAIN dice |-> i]
            /\ last' = [op |-> "load", arguments |-> arguments, raised |-> ""]
       ELSE IF arguments \in DOMAIN subsets
       THEN /\ current' = subsets[arguments]
            /\ last' = [op |-> "load", arguments |-> arguments, raised |-> ""]
       ELSE /\ last' = [op |-> "load", arguments |-> arguments, raised |-> "KeyError"]
            /\ UNCHANGED current
    /\ UNCHANGED <<dice, changes, new_rows, subsets, dat, running, ledger, entries, call>>

do_store(arguments) ==
    /\ running
    /\ subsets' = (arguments :> current) @@ subsets
    /\ last' = [op |-> "store", arguments |-> arguments]
    /\ UNCHANGED <<dice, current, changes, new_rows, dat, running, ledger, entries, call>>

do_subset(arguments) ==
    /\ running
    /\ current' = filter(current, arguments)
    /\ last' = [op |-> "subset", arguments |-> arguments, base |-> current,
                output |-> filter(current, arguments)]
    /\ UNCHANGED <<dice, changes, new_rows, subsets, dat, running, ledger, entries, call>>

\* Lou.preloop: the session after the data file is loaded
preloop(file) ==
    /\ dat = file
    /\ dice = load_data(file)
    /\ current = [i \in DOMAIN load_data(file) |-> i]
    /\ subsets = <<>>
    /\ changes = FALSE
    /\ new_rows = <<>>
    /\ running = TRUE
    /\ ledger = [code \in {load_data(file)[i].code : i \in DOMAIN load_data(file)} |->
                   sum(SelectSeq(load_data(file), LAMBDA die : die.code = code))]
    /\ entries = 0
    /\ last = [op |-> "preloop", total |-> sum(load_data(file))]

Init ==
    /\ \E file \in InitFiles : preloop(file)
    /\ call = [op |-> "none"]

Next ==
    \/ \E in \in AddInputs : do_add(in)
    \/ \E color \in Add7Colors : do_add7(color)
    \/ \E arguments \in SessionFeatures : do_count(arguments)
    \/ \E arguments \in LoadNames : do_load(arguments)
    \/ \E arguments \in StoreNames : do_store(arguments)
    \/ \E arguments \in SessionCriteria : do_subset(arguments)
    \/ do_save
    \/ \E answer \in BOOLEAN : do_quit(answer)

Spec == Init /\ [][Next]_vars

\* The query specification: subset, count and load over the loaded collections.
InitQuery ==
    /\ \E file \in QueryFiles : preloop(file)
    /\ call = [op |-> "none"]

NextQuery ==
    \/ \E arguments \in Features : do_count(arguments)
    \/ \E arguments \in Criteria : do_subset(arguments)
    \/ \E arguments \in LoadNames : do_load(arguments)

SpecQuery == InitQuery /\ [][NextQuery]_vars

----------------------------------------------------------------------------
(* The codec specification: encode called on drawn arguments, and Die      *)
(* built from the code it returns.                                         *)

\* The names of the tables, and names that are in neither table.
CodecColors ==
    Range(values(COLORS)) \cup {<<"R","E","D">>, <<"r","e","d","d","i","s","h">>, <<"O","f","f","-","W","h","i","t","e">>, <<"c","r","i","m","s","o","n">>, <<"r","e">>, <<>>}
CodecSizes ==
    Range(values(SIZES)) \cup {<<"M">>, <<"g","a","r","g","a","n","t","u","a","n">>, <<"t","i","n","y">>, <<>>}
\* (sides, faces): one, two and three digits, and more than three
CodecNumbers == {<<1, 1>>, <<20, 20>>, <<999, 1>>, <<6, 999>>, <<1000, 1>>, <<100, 1001>>}

InitCodec ==
    /\ call \in [op : {"input"}, color : CodecColors, size : CodecSizes,
                 numbers : CodecNumbers, flags : 0..MaxFlagsInput]
    /\ dice = <<>> /\ current = <<>> /\ changes = FALSE /\ new_rows = <<>>
    /\ subsets = <<>> /\ dat = <<>> /\ running = FALSE /\ ledger = <<>> /\ entries = 0
    /\ last = [op |-> "none"]

call_encode ==
    /\ call.op = "input"
    /\ LET raised == encode_raises(call.color, call.size, call.numbers[1], call.numbers[2], call.flags)
       IN  call' = [op |-> "encode", color |-> call.color, size |-> call.size,
                    numbers |-> call.numbers, flags |-> call.flags,
                    raised |-> raised,
                    code |-> IF raised = "" THEN encode(call.color, call.size, call.numbers[1],
                                                        call.numbers[2], call.flags)
                             ELSE <<>>]
    /\ UNCHANGED <<dice, current, changes, new_rows, subsets, dat, running, ledger, entries, last>>

call_Die ==
    /\ call.op = "encode"
    /\ call.raised = ""
    /\ call' = [op |-> "Die", color |-> call.color, size |-> call.size,
                numbers |-> call.numbers, flags |-> call.flags,
                raised |-> Die_raises(call.code),
                code |-> call.code,
                die |-> IF Die_raises(call.code) = "" THEN Die(call.code, 1) ELSE <<>>]
    /\ UNCHANGED <<dice, current, changes, new_rows, subsets, dat, running, ledger, entries, last>>

NextCodec == call_encode \/ call_Die

SpecCodec == InitCodec /\ [][NextCodec]_vars

----------------------------------------------------------------------------
(* The properties.                                                         *)

RECURSIVE IsSubSeq(_, _)
IsSubSeq(a, b) ==
    IF Len(a) = 0 THEN TRUE
    ELSE IF Len(b) = 0 THEN FALSE
    ELSE IF a[1] = b[1] THEN IsSubSeq(Tail(a), Tail(b))
    ELSE IsSubSeq(a, Tail(b))

RECURSIVE SumOver(_, _)
SumOver(S, f) ==
    IF S = {} THEN 0
    ELSE LET x == CHOOSE x \in S : TRUE IN f[x] + SumOver(S \ {x}, f)

ColorNames == Range(values(COLORS))
SizeNames == Range(values(SIZES))

\* The arguments of the call are the valid ones of the round trip.
ValidCall ==
    /\ call.color \in ColorNames /\ call.size \in SizeNames
    /\ call.numbers[1] \in 1..999 /\ call.numbers[2] \in 1..999
    /\ call.flags \in 0..31

\* C1. Round trip: for a color name and a size name of the tables, sides and
\* faces in 1..999 and flags in 0..31, encode returns a code, Die built from it
\* raises nothing, and its color, size, sides and faces are the arguments and
\* its five flags are the bits of flags: flags is the sum of 2^i over the
\* positions i of FLAGS (from 0) whose flag is true.
C1_RoundTrip ==
    /\ (call.op = "encode" /\ ValidCall) => call.raised = ""
    /\ (call.op = "Die" /\ ValidCall) =>
         /\ call.raised = ""
         /\ call.die.color = call.color
         /\ call.die.size = call.size
         /\ call.die.sides = call.numbers[1]
         /\ call.die.faces = call.numbers[2]
         /\ call.flags = SumOver(DOMAIN FLAGS,
                [i \in DOMAIN FLAGS |-> IF getattr(call.die, FLAGS[i]) THEN pow2(i - 1) ELSE 0])

C1_Witness ==
    /\ call.op = "Die" /\ ValidCall
    /\ call.color = <<"o","f","f"," ","w","h","i","t","e">> /\ call.size = <<"g","i","g","a","n","t","i","c">>
    /\ call.numbers = <<999, 1>> /\ call.flags = 21
    /\ call.die.art_pip /\ call.die.odd_shape /\ call.die.odd_face
    /\ ~call.die.material /\ ~call.die.odd_pip

\* C6 as claimed. encode fails for every color name that is not a display name
\* of the color table and for every size name that is not a display name of
\* the size table, and succeeds only when both are display names.
C6_Original ==
    call.op = "encode" =>
        (call.raised = "" <=> (call.color \in ColorNames /\ call.size \in SizeNames))

\* C6 as amended. encode fails exactly when the upper-cased first three
\* characters of the color name are not a key of the color table, or the size
\* name is empty, or its upper-cased first character is not a key of the size
\* table.  So it succeeds for every pair of display names, and the code then
\* starts with the keys whose display names they are; and it succeeds for
\* other names with such a beginning (the size 'M' that do_add7 passes).
C6_Amended ==
    call.op = "encode" =>
        /\ call.raised = "" <=>
             /\ \E k \in Range(keys(COLORS)) :
                    Len(call.color) >= 3 /\ \A i \in 1..3 : upper(call.color)[i] = k[i]
             /\ \E k \in Range(keys(SIZES)) : Len(call.size) >= 1 /\ upper(call.size)[1] = k[1]
        /\ (call.color \in ColorNames /\ call.size \in SizeNames) =>
             /\ call.raised = ""
             /\ item(COLORS, SubSeq(call.code, 1, 3)) = call.color
             /\ item(SIZES, SubSeq(call.code, 4, 4)) = call.size

C6_Witness ==
    /\ call.op = "encode" /\ call.raised = ""
    /\ call.color = <<"r","e","d","d","i","s","h">> /\ call.size = <<"M">>
    /\ SubSeq(call.code, 1, 4) = <<"R","E","D","M">>

\* The size name a criteria text of one word resolves to: the word itself
\* when it is a size name, the name of the key when it is a key of SIZES.
SizeTokens == {w \in Criteria : Len(split(lower(w))) = 1}
size_of(arguments) ==
    LET word == split(lower(arguments))[1]
    IN  IF word \in SizeNames THEN word
        ELSE IF has_key(SIZES, upper(word)) THEN item(SIZES, upper(word))
        ELSE <<>>

\* C2 as claimed. Size filtering: for a criteria text of one word that
\* resolves to a size name, the subset command keeps exactly the records of
\* the current list whose size is that name.
C2_SizeFilter ==
    (last.op = "subset" /\ last.arguments \in SizeTokens /\ size_of(last.arguments) # <<>>) =>
        last.output = SelectSeq(last.base, LAMBDA r : dice[r].size = size_of(last.arguments))

\* C5. Filter narrowing: the list Lou.filter returns holds only records of
\* the list it was given, in their order and none added, and filtering that
\* list again with the same criteria text returns it unchanged.
C5_FilterNarrowing ==
    last.op = "subset" =>
        /\ IsSubSeq(last.output, last.base)
        /\ Len(last.output) <= Len(last.base)
        /\ filter(last.output, last.arguments) = last.output

C5_Witness ==
    /\ last.op = "subset"
    /\ Len(split(lower(last.arguments))) = 2
    /\ Len(last.output) > 0
    /\ Len(last.output) < Len(last.base)
    /\ Len(last.base) < Len(dice)

\* The feature that do_count looks up for its argument.
feature_of(arguments) == replace(lower(arguments), "-", "_")
ValidFeatures == {<<"c","o","l","o","r">>, <<"s","i","z","e">>, <<"s","i","d","e","s">>, <<"f","a","c","e","s">>} \cup Range(FLAGS)

\* C7 as claimed. Invalid feature: for every current subset of a collection
\* that holds records, the empty subset included, and every feature name that
\* is not an attribute of a die record, do_count ends with the invalid feature
\* message and raises no error.
C7_InvalidFeature ==
    (last.op = "count" /\ Len(dice) > 0 /\ ~has_key(ATTRIBUTES, feature_of(last.arguments))) =>
        (last.invalid /\ last.raised = "")

\* The values of a feature over a list, each once, in the order first seen.
RECURSIVE first_seen(_, _)
first_seen(list, feature) ==
    IF Len(list) = 0 THEN <<>>
    ELSE LET before == first_seen(SubSeq(list, 1, Len(list) - 1), feature)
             value == getattr(dice[list[Len(list)]], feature)
         IN  IF value \in Range(before) THEN before ELSE Append(before, value)

\* C8. Aggregation sum: for a valid feature name, the counts do_count reports
\* add up to the sum of the quantities of the records of the list it counts;
\* each distinct value of the feature is reported once, in first-seen order,
\* with the sum of the quantities of the records that have it.
C8_AggregationSum ==
    (last.op = "count" /\ feature_of(last.arguments) \in ValidFeatures) =>
        /\ ~last.invalid
        /\ SumOver(DOMAIN last.counts, [i \in DOMAIN last.counts |-> last.counts[i][2]])
             = SumOver(DOMAIN current, [i \in DOMAIN current |-> dice[current[i]].count])
        /\ last.raised = "" =>
             /\ keys(last.counts) = first_seen(current, feature_of(last.arguments))
             /\ \A i \in DOMAIN last.counts :
                  last.counts[i][2] =
                    SumOver({j \in DOMAIN current :
                               getattr(dice[current[j]], feature_of(last.arguments)) = last.counts[i][1]},
                            [j \in DOMAIN current |-> dice[current[j]].count])

C8_Witness ==
    /\ last.op = "count" /\ last.arguments = <<"O","d","d","-","F","a","c","e">> /\ last.raised = ""
    /\ Len(last.counts) = 2
    /\ Len(current) = 3
    /\ last.counts[1][1] = FALSE /\ last.counts[2][1] = TRUE

\* The lines of the data file are those of the records of the collection:
\* one line for each record, with its count, and no other line.
FileMatches ==
    /\ Len(dat) = Len(dice)
    /\ \A i \in DOMAIN dice : Cardinality({j \in DOMAIN dat : dat[j] = data(dice[i])}) = 1

\* C3 as claimed. Persistence consistency: starting from a collection that
\* matches the data file, right after each save the data file holds exactly
\* one line per record of the collection, with the record's count: no code
\* is written twice and none is missing.
C3_Persistence ==
    last.op = "save" => FileMatches

\* The record of the collection with a code.
record_of(code) == dice[Index([i \in DOMAIN dice |-> dice[i].code], code)]

\* C4. Merging: no two records of the collection share a code, and the count
\* of each code is the count loaded for it plus the quantities added for it.
C4_Merging ==
    /\ \A i, j \in DOMAIN dice : dice[i].code = dice[j].code => i = j
    /\ {dice[i].code : i \in DOMAIN dice} = DOMAIN ledger
    /\ \A i \in DOMAIN dice : dice[i].count = ledger[dice[i].code]

C4_Witness ==
    /\ last.op = "add" /\ last.raised = "" /\ last.in.count = 3
    /\ entries = 2
    /\ Len(dice) = 7
    /\ record_of(<<"R","E","D","M","0","0","6","0","0","6","0","0">>).count = 5
    /\ record_of(<<"R","E","D","M","0","1","0","0","1","0","1","6">>).count = 1
    /\ changes /\ Len(new_rows) = 6

\* C9 as claimed. Well-formed codes: every record of the collection has a
\* code of 12 characters whose flags field is in 0..31, and the sides and faces
\* decoded for the record of an add are the ones that were entered.
C9_WellFormedCodes ==
    /\ \A i \in DOMAIN dice :
         Len(dice[i].code) = 12 /\ int(SubSeq(dice[i].code, 11, Len(dice[i].code))) \in 0..31
    /\ (last.op = "add" /\ last.raised = "") =>
         /\ record_of(last.code).sides = last.in.sides
         /\ record_of(last.code).faces = last.in.faces

\* C10 as claimed. Flag menu mapping: after an add with distinct menu
\* letters, the record has exactly the flags that the chosen lines of the menu
\* describe.
C10_FlagMenu ==
    (/\ last.op = "add" /\ last.raised = ""
     /\ \A i, j \in DOMAIN last.in.choices :
            lower(last.in.choices)[i] = lower(last.in.choices)[j] => i = j) =>
        \A f \in DOMAIN FLAGS :
            getattr(record_of(last.code), FLAGS[f]) <=>
                \E m \in DOMAIN FLAG_MENU :
                    /\ FLAG_MENU[m][1] \in Range(lower(last.in.choices))
                    /\ FLAG_MENU[m][2] = FLAGS[f]

====
